---------------------------- MODULE Spec2Model ----------------------------
(***************************************************************************)
(* mboxctl: the command line client of the mailbox daemon (src/mboxctl.c). *)
(*                                                                         *)
(* One behaviour of Spec is one process invocation: main() acquires the    *)
(* system bus, parse_cmdline() loops over getopt_long() and runs one       *)
(* command handler per option, each handler performs (at most) one         *)
(* send_dbus_msg() exchange with the daemon, and main() returns.           *)
(*                                                                         *)
(* The daemon and libsystemd are the environment: every library call that  *)
(* can fail is resolved by a nondeterministic outcome record (Envs); a     *)
(* failing call reports EIO.  calloc() is taken to succeed.  getopt_long  *)
(* is glibc's: it permutes argv and prints its own messages (opterr = 1).  *)
(*                                                                         *)
(* ExchangeSpec applies send_dbus_msg alone to inputs drawn from bounded   *)
(* sets, with expected lengths and buffers larger than any handler uses.   *)
(*                                                                         *)
(* A string is a sequence of one-character strings, so that *arg, strchr   *)
(* and the long option table are computed as the code computes them.       *)
(*                                                                         *)
(* stdout and stderr are append-only and never read back; the model keeps  *)
(* the lines the most recent step appended (variable out).                 *)
(***************************************************************************)
EXTENDS Integers, Sequences, FiniteSets, TLC

VARIABLES
    pc,        \* position of main(): "start", "parse", "exited"
    argv,      \* argv[1..argc-1], a sequence of strings; getopt permutes it
    optind,    \* getopt: index in argv of the next element to scan
    nextchar,  \* getopt: index in argv[optind] of the next bundled short option, 0 if none
    first_nonopt, \* getopt: index of the first of the non-options skipped
    last_nonopt,  \* getopt: index after the last of the non-options skipped
    busRefs,   \* references the process holds on context->bus (sd_bus)
    rc,        \* rc of parse_cmdline() while parsing, the exit status once exited
    heap,      \* calloc/free bookkeeping: [next, live, freed]
    nRan,      \* number of command handlers run so far
    nSent,     \* number of requests handed to sd_bus_call() so far
    h,         \* the most recent handler run (Idle before the first)
    x,         \* the most recent send_dbus_msg() call (NoCall before the first)
    out        \* the lines the most recent step printed

vars == <<pc, argv, optind, nextchar, first_nonopt, last_nonopt, busRefs, rc, heap, nRan, nSent, h, x, out>>

----------------------------------------------------------------------------
(* Bounds of the model *)

MaxArgv == 2        \* argv holds at most this many elements after argv[0]
MaxReplyLen == 1    \* the daemon's reply carries at most this many argument bytes
MaxByte == 1        \* argument bytes of the exchange harness range over 0..MaxByte
MaxStatus == 5      \* status bytes range over 0..MaxStatus (5 is outside the taxonomy)
MaxExpected == 2    \* expected response lengths of the exchange harness
MaxCapacity == 3    \* response buffer sizes of the exchange harness
MaxBufLen == 3      \* reply lengths of the exchange harness

----------------------------------------------------------------------------
(* mbox_dbus.h: the protocol constants *)

DBUS_C_PING == 0
DBUS_C_STATUS == 1
DBUS_C_RESET == 2
DBUS_C_SUSPEND == 3
DBUS_C_RESUME == 4
DBUS_C_MODIFIED == 5

DBUS_SUCCESS == 0
E_DBUS_INTERNAL == 1
E_DBUS_INVAL == 2
E_DBUS_REJECTED == 3
E_DBUS_HARDWARE == 4

RESUME_NOT_MODIFIED == 0
RESUME_FLASH_MODIFIED == 1

STATUS_ACTIVE == 0
STATUS_SUSPENDED == 1

----------------------------------------------------------------------------
(* Small helpers *)

RECURSIVE SeqsUpTo(_, _)
SeqsUpTo(S, n) ==
    IF n = 0 THEN {<<>>}
    ELSE LET shorter == SeqsUpTo(S, n - 1)
         IN  shorter \cup {Append(s, e) : s \in {t \in shorter : Len(t) = n - 1}, e \in S}

Zeros(n) == [i \in 1..n |-> 0]

IsPrefix(p, s) == Len(p) <= Len(s) /\ SubSeq(s, 1, Len(p)) = p

\* index of the first occurrence of ch in s, 0 when there is none (strchr)
StrChr(s, ch) ==
    IF \E i \in 1..Len(s) : s[i] = ch
    THEN CHOOSE i \in 1..Len(s) : s[i] = ch /\ \A j \in 1..(i - 1) : s[j] # ch
    ELSE 0

NUL == "\\0"

\* *arg of a C string: its first character, the terminator when it is empty
FirstChar(arg) == IF Len(arg) = 0 THEN NUL ELSE arg[1]

NULL == <<"(null)">>

----------------------------------------------------------------------------
(* parse_cmdline: the option tables handed to getopt_long *)

\* the short option string "psrfs:umvh"
OptString == <<"p", "s", "r", "f", "s", ":", "u", "m", "v", "h">>

\* long_options[]: has_arg is TRUE for required_argument
LongOptions == <<
    [name |-> <<"p", "i", "n", "g">>, has_arg |-> FALSE, val |-> "p"],
    [name |-> <<"s", "t", "a", "t", "u", "s">>, has_arg |-> FALSE, val |-> "s"],
    [name |-> <<"r", "e", "s", "e", "t">>, has_arg |-> FALSE, val |-> "r"],
    [name |-> <<"p", "o", "i", "n", "t", "-", "t", "o", "-", "f", "l", "a", "s", "h">>,
     has_arg |-> FALSE, val |-> "f"],
    [name |-> <<"s", "u", "s", "p", "e", "n", "d">>, has_arg |-> FALSE, val |-> "u"],
    [name |-> <<"r", "e", "s", "u", "m", "e">>, has_arg |-> TRUE, val |-> "e"],
    [name |-> <<"f", "l", "a", "s", "h", "_", "m", "o", "d", "i", "f", "i", "e", "d">>,
     has_arg |-> FALSE, val |-> "m"],
    [name |-> <<"v", "e", "r", "s", "i", "o", "n">>, has_arg |-> FALSE, val |-> "v"],
    [name |-> <<"h", "e", "l", "p">>, has_arg |-> FALSE, val |-> "h"] >>

EOF == "-1"
BadOpt == "?"

\* an argv element that getopt treats as an option: "-x..." but not "-"
IsOptionElem(e) == Len(e) >= 2 /\ e[1] = "-"

\* the first index >= oi of an option element, Len(av) + 1 when there is none:
\* while (optind < argc && NONOPTION_P) optind++
FirstOption(av, oi) ==
    IF \E i \in oi..Len(av) : IsOptionElem(av[i])
    THEN CHOOSE i \in oi..Len(av) :
            IsOptionElem(av[i]) /\ \A j \in oi..(i - 1) : ~IsOptionElem(av[j])
    ELSE Len(av) + 1

\* getopt's exchange(): the non-options av[bottom..middle-1] and the options
\* av[middle..top-1] that follow them change places
Exchange(av, bottom, middle, top) ==
    SubSeq(av, 1, bottom - 1) \o SubSeq(av, middle, top - 1)
        \o SubSeq(av, bottom, middle - 1) \o SubSeq(av, top, Len(av))

\* the data getopt keeps between calls: argv (which it permutes), optind,
\* nextchar, first_nonopt and last_nonopt
GetState(av, oi, nc, fn, ln) ==
    [argv |-> av, optind |-> oi, nextchar |-> nc,
     first_nonopt |-> fn, last_nonopt |-> ln]

\* what one call returns: the option, optarg, the data kept, and the lines
\* getopt itself prints on stderr (opterr is 1)
GetResult(opt, optarg, st, err) ==
    [opt |-> opt, optarg |-> optarg, argv |-> st.argv, optind |-> st.optind,
     nextchar |-> st.nextchar, first_nonopt |-> st.first_nonopt,
     last_nonopt |-> st.last_nonopt, err |-> err]

\* a message of getopt: "argv[0]: <fmt>" about the option what, written as
\* the message writes it
GetoptLine(fmt, what) ==
    <<[stream |-> "stderr", fmt |-> fmt, str |-> "argv[0]", num |-> 0,
       what |-> what]>>

\* one short option: the character at st.argv[i][k]
GetOptShort(st, i, k) ==
    LET av   == st.argv
        c    == av[i][k]
        pos  == StrChr(OptString, c)
        last == k = Len(av[i])
        noi  == IF last THEN i + 1 ELSE i
        nnc  == IF last THEN 0 ELSE k + 1
        takesArg == pos > 0 /\ pos < Len(OptString) /\ OptString[pos + 1] = ":"
        to(oi, nc) == [st EXCEPT !.optind = oi, !.nextchar = nc]
    IN  IF pos = 0 \/ c = ":"
        THEN GetResult(BadOpt, NULL, to(noi, nnc),
                       GetoptLine("%s: invalid option -- '%c'\n", <<c>>))
        ELSE IF ~takesArg THEN GetResult(c, NULL, to(noi, nnc), <<>>)
        ELSE IF ~last
        THEN GetResult(c, SubSeq(av[i], k + 1, Len(av[i])), to(i + 1, 0), <<>>)
        ELSE IF i + 1 <= Len(av) THEN GetResult(c, av[i + 1], to(i + 2, 0), <<>>)
        ELSE GetResult(BadOpt, NULL, to(i + 1, 0),
                       GetoptLine("%s: option requires an argument -- '%c'\n", <<c>>))

\* one long option: st.argv[i] is "--name" or "--name=value"
GetOptLong(st, i) ==
    LET av     == st.argv
        e      == av[i]
        eq     == StrChr(e, "=")
        name   == IF eq = 0 THEN SubSeq(e, 3, Len(e)) ELSE SubSeq(e, 3, eq - 1)
        value  == IF eq = 0 THEN NULL ELSE SubSeq(e, eq + 1, Len(e))
        dd(n)  == <<"-", "-">> \o n
        idx    == 1..Len(LongOptions)
        exact  == {j \in idx : LongOptions[j].name = name}
        abbrev == {j \in idx : IsPrefix(name, LongOptions[j].name)}
        hits   == IF exact # {} THEN exact ELSE abbrev
        same   == \A a, b \in hits :
                     /\ LongOptions[a].has_arg = LongOptions[b].has_arg
                     /\ LongOptions[a].val = LongOptions[b].val
        to(oi) == [st EXCEPT !.optind = oi, !.nextchar = 0]
    IN  IF hits = {}
        THEN GetResult(BadOpt, NULL, to(i + 1),
                       GetoptLine("%s: unrecognized option '%s%s'\n", e))
        ELSE IF ~same
        THEN GetResult(BadOpt, NULL, to(i + 1),
                       GetoptLine("%s: option '%s%s' is ambiguous; possibilities:", e))
        ELSE LET o == LongOptions[CHOOSE j \in hits : TRUE]
             IN  IF eq # 0
                 THEN IF o.has_arg THEN GetResult(o.val, value, to(i + 1), <<>>)
                      ELSE GetResult(BadOpt, NULL, to(i + 1),
                                     GetoptLine("%s: option '%s%s' doesn't allow an argument\n",
                                                dd(o.name)))
                 ELSE IF ~o.has_arg THEN GetResult(o.val, NULL, to(i + 1), <<>>)
                 ELSE IF i + 1 <= Len(av)
                 THEN GetResult(o.val, av[i + 1], to(i + 2), <<>>)
                 ELSE GetResult(BadOpt, NULL, to(i + 1),
                                GetoptLine("%s: option '%s%s' requires an argument\n",
                                           dd(o.name)))

\* the start of a call that begins a new argv element: the options scanned
\* since the last skipped non-options are moved in front of them, then the
\* non-options at optind are skipped
GetOptAdvance(st) ==
    LET oi  == st.optind
        ln  == IF st.last_nonopt > oi THEN oi ELSE st.last_nonopt
        fn  == IF st.first_nonopt > oi THEN oi ELSE st.first_nonopt
        swap == fn # ln /\ ln # oi
        av  == IF swap THEN Exchange(st.argv, fn, ln, oi) ELSE st.argv
        fn2 == IF swap THEN fn + (oi - ln)
               ELSE IF ln # oi THEN oi ELSE fn
        oi2 == FirstOption(av, oi)
    IN  GetState(av, oi2, 0, fn2, oi2)

\* the end of the scan: optind goes back to the non-options skipped
GetOptEnd(st) ==
    GetResult(EOF, NULL,
              [st EXCEPT !.optind = IF st.first_nonopt # st.last_nonopt
                                    THEN st.first_nonopt ELSE st.optind],
              <<>>)

\* the element "--" ends the scan: what follows are non-options
GetOptDashDash(st) ==
    LET oi   == st.optind + 1
        fn   == st.first_nonopt
        ln   == st.last_nonopt
        swap == fn # ln /\ ln # oi
        av   == IF swap THEN Exchange(st.argv, fn, ln, oi) ELSE st.argv
        fn2  == IF swap THEN fn + (oi - ln)
                ELSE IF fn = ln THEN oi ELSE fn
        argc == Len(av) + 1
    IN  GetOptEnd(GetState(av, argc, 0, fn2, argc))

\* getopt_long(argc, argv, "psrfs:umvh", long_options, NULL) on the data st
GetOpt(st) ==
    IF st.nextchar > 0 THEN GetOptShort(st, st.optind, st.nextchar)
    ELSE LET a == GetOptAdvance(st)
             i == a.optind
         IN  IF i <= Len(a.argv) /\ a.argv[i] = <<"-", "-">> THEN GetOptDashDash(a)
             ELSE IF i > Len(a.argv) THEN GetOptEnd(a)
             ELSE IF a.argv[i][2] = "-" THEN GetOptLong(a, i)
             ELSE GetOptShort(a, i, 2)

\* the argv elements the model draws command lines from
Words == {
    <<"-", "-", "p", "i", "n", "g">>,
    <<"-", "s">>,
    <<"-", "-", "p", "o", "i", "n", "t", "-", "t", "o", "-", "f", "l", "a", "s", "h">>,
    <<"-", "u">>,
    <<"-", "-", "r", "e", "s", "u", "m", "e">>,
    <<"-", "-", "r", "e", "s", "u", "m", "e", "=", "1">>,
    <<"-", "m">>,
    <<"-", "v">>,
    <<"-", "h">>,
    <<"0">>,
    <<"2">> }

CmdLines == SeqsUpTo(Words, MaxArgv)

----------------------------------------------------------------------------
(* Messages, buffers and the heap *)

\* a pointer to bytes: addr 0 is the null pointer
NullBuf == [addr |-> 0, bytes |-> <<>>]

\* struct mbox_dbus_msg msg = { 0 }
ZeroMsg == [cmd |-> 0, num_args |-> 0, args |-> NullBuf]

EmptyHeap == [next |-> 1, live |-> {}, freed |-> <<>>]

\* calloc(n, 1): a fresh zeroed buffer, and the heap that holds it
Calloc(hp, n) ==
    [buf  |-> [addr |-> hp.next, bytes |-> Zeros(n)],
     heap |-> [hp EXCEPT !.next = @ + 1, !.live = @ \cup {hp.next}]]

\* free(p): nothing for the null pointer
Free(hp, buf) ==
    IF buf.addr = 0 THEN hp
    ELSE [hp EXCEPT !.live = @ \ {buf.addr}, !.freed = Append(@, buf.addr)]

\* src[i] for memcpy; a read past the end of src is not reached while the
\* length check of send_dbus_msg stands, and reads 0 here
ByteAt(src, i) == IF i <= Len(src) THEN src[i] ELSE 0

\* memcpy(dst, src, n) on the bytes dst points to
Memcpy(dst, src, n) ==
    [i \in 1..Len(dst) |-> IF i <= n THEN ByteAt(src, i) ELSE dst[i]]

\* a printed line: the stream, the format, and its %s or strerror argument
Line(stream, fmt, str, num) ==
    [stream |-> stream, fmt |-> fmt, str |-> str, num |-> num]

\* a line that formats strerror(-r)
ErrLine(fmt, r) == Line("stderr", fmt, "strerror", 0 - r)

----------------------------------------------------------------------------
(* Error taxonomy *)

\* parse_error(error_val)
ParseError(error_val) ==
    CASE error_val = DBUS_SUCCESS    -> "Success"
      [] error_val = E_DBUS_INTERNAL -> "Failed - Internal Error"
      [] error_val = E_DBUS_INVAL    -> "Failed - Invalid Command or Request"
      [] error_val = E_DBUS_REJECTED -> "Failed - Request Rejected by Daemon"
      [] error_val = E_DBUS_HARDWARE -> "Failed - BMC Hardware Error"
      [] OTHER                       -> "Failed - Unknown Error"

----------------------------------------------------------------------------
(* The environment of one exchange: which library call fails, and the reply *)

FailPoints == {"new_method_call", "append_cmd", "append_args", "call",
               "read_cmd", "read_args"}

\* errno.h: the error a failing library call reports (it returns -EIO)
EIO == 5

Errnos == {EIO}
StatusBytes == 0..MaxStatus

\* the payload bytes the protocol defines
PayloadBytes == {STATUS_ACTIVE, STATUS_SUSPENDED}

Env(fail, err, status, buf) ==
    [fail |-> fail, err |-> err, status |-> status, buf |-> buf]

\* the outcomes whose replies carry at most n argument bytes, drawn from B
EnvsOver(B, n) ==
    {Env(f, e, 0, <<>>) : f \in FailPoints \ {"read_args"}, e \in Errnos}
    \cup {Env("read_args", e, s, <<>>) : e \in Errnos, s \in StatusBytes}
    \cup {Env("none", 0, s, b) : s \in StatusBytes, b \in SeqsUpTo(B, n)}

Envs == EnvsOver(PayloadBytes, MaxReplyLen)

----------------------------------------------------------------------------
(* send_dbus_msg *)

\* the request sd_bus_call() transmits: the command byte and num_args bytes
Request(msg) == [cmd |-> msg.cmd, args |-> SubSeq(msg.args.bytes, 1, msg.num_args)]

\* a faulty StoreCmd: the status byte is not stored
StoreCmdSkipped(resp, status) == resp

\* sd_bus_message_read(n, "y", &resp->cmd) stores the status byte
StoreCmd(resp, status) == [resp EXCEPT !.cmd = status]

\* a faulty InsufficientArgs: the check is off by one
InsufficientArgsOffByOne(sz, num_args) == sz + 1 < num_args

\* the length check on the reply's argument array: sz < resp->num_args
InsufficientArgs(sz, num_args) == sz < num_args

\* a faulty CopyLen: the whole reply is copied
CopyLenReply(sz, num_args) == sz

\* the number of bytes copied into resp->args: resp->num_args
CopyLen(sz, num_args) == num_args

XResult(r, resp, sent, lines) == [rc |-> r, resp |-> resp, sent |-> sent, out |-> lines]

\* send_dbus_msg(context, msg, resp) when the environment resolves to env
SendDbusMsg(msg, resp, env) ==
    LET req == <<Request(msg)>>
        gotCmd == StoreCmd(resp, env.status)
        sz == Len(env.buf)
    IN  CASE env.fail = "new_method_call" ->
               XResult(0 - env.err, resp, <<>>,
                       <<ErrLine("Failed to init method call: %s\n", 0 - env.err)>>)
          [] env.fail = "append_cmd" ->
               XResult(0 - env.err, resp, <<>>,
                       <<ErrLine("Failed to add cmd to message: %s\n", 0 - env.err)>>)
          [] env.fail = "append_args" ->
               XResult(0 - env.err, resp, <<>>,
                       <<ErrLine("Failed to add args to message: %s\n", 0 - env.err)>>)
          [] env.fail = "call" ->
               XResult(0 - env.err, resp, req,
                       <<ErrLine("Failed to post message: %s\n", 0 - env.err)>>)
          [] env.fail = "read_cmd" ->
               XResult(0 - env.err, resp, req,
                       <<ErrLine("Failed to read response code: %s\n", 0 - env.err)>>)
          [] env.fail = "read_args" ->
               XResult(0 - env.err, gotCmd, req,
                       <<ErrLine("Failed to read response args: %s\n", 0 - env.err)>>)
          [] OTHER ->
               IF InsufficientArgs(sz, resp.num_args)
               THEN XResult(0 - E_DBUS_INTERNAL, gotCmd, req,
                            <<Line("stderr",
                                   "Command returned insufficient response args\n",
                                   "", 0)>>)
               ELSE XResult(0,
                            [gotCmd EXCEPT !.args.bytes =
                                Memcpy(@, env.buf, CopyLen(sz, resp.num_args))],
                            req, <<>>)

\* the record of one call of send_dbus_msg
NoCall == [called |-> FALSE]

XRecord(msg, resp, env) ==
    LET r == SendDbusMsg(msg, resp, env)
    IN  [called |-> TRUE, msg |-> msg, resp0 |-> resp, env |-> env,
         rc |-> r.rc, resp |-> r.resp, sent |-> r.sent, out |-> r.out]

----------------------------------------------------------------------------
(* Command handlers: each is the whole C function, the exchange included *)

HResult(r, lines, hp, xr) == [rc |-> r, out |-> lines, heap |-> hp, x |-> xr]

\* a faulty HandlerResult: the status is not negated
HandlerResultPositive(cmd) == cmd

\* rc = -resp.cmd
HandlerResult(cmd) == 0 - cmd

\* handle_cmd_ping(context)
HandleCmdPing(hp, env) ==
    LET msg  == [ZeroMsg EXCEPT !.cmd = DBUS_C_PING]
        resp == ZeroMsg
        xr   == XRecord(msg, resp, env)
    IN  IF xr.rc < 0
        THEN HResult(xr.rc,
                     Append(xr.out, Line("stderr", "Failed to send ping command\n", "", 0)),
                     hp, xr)
        ELSE HResult(HandlerResult(xr.resp.cmd),
                     Append(xr.out, Line("stdout", "Ping: %s\n",
                                         ParseError(xr.resp.cmd), 0)),
                     hp, xr)

\* a faulty FreeRespArgs: the buffer is not freed
FreeRespArgsSkipped(hp, resp) == hp

\* free(resp.args) at the end of handle_cmd_status
FreeRespArgs(hp, resp) == Free(hp, resp.args)

\* handle_cmd_status(context)
HandleCmdStatus(hp, env) ==
    LET msg  == [ZeroMsg EXCEPT !.cmd = DBUS_C_STATUS]
        a    == Calloc(hp, 1)
        resp == [ZeroMsg EXCEPT !.num_args = 1, !.args = a.buf]
        xr   == XRecord(msg, resp, env)
        hp2  == FreeRespArgs(a.heap, xr.resp)
    IN  IF xr.rc < 0
        THEN HResult(xr.rc,
                     Append(xr.out, Line("stderr", "Failed to send status command\n", "", 0)),
                     hp2, xr)
        ELSE IF xr.resp.cmd # DBUS_SUCCESS
        THEN HResult(HandlerResult(xr.resp.cmd),
                     Append(xr.out, Line("stderr", "Status command failed\n", "", 0)),
                     hp2, xr)
        ELSE HResult(HandlerResult(xr.resp.cmd),
                     Append(xr.out,
                            Line("stdout", "Daemon Status: %s\n",
                                 IF xr.resp.args.bytes[1] = STATUS_ACTIVE
                                 THEN "Active" ELSE "Suspended", 0)),
                     hp2, xr)

\* handle_cmd_reset(context)
HandleCmdReset(hp, env) ==
    LET msg  == [ZeroMsg EXCEPT !.cmd = DBUS_C_RESET]
        resp == ZeroMsg
        xr   == XRecord(msg, resp, env)
    IN  IF xr.rc < 0
        THEN HResult(xr.rc,
                     Append(xr.out, Line("stderr", "Failed to send reset command\n", "", 0)),
                     hp, xr)
        ELSE HResult(HandlerResult(xr.resp.cmd),
                     Append(xr.out, Line("stdout", "Reset: %s\n",
                                         ParseError(xr.resp.cmd), 0)),
                     hp, xr)

\* handle_cmd_suspend(context)
HandleCmdSuspend(hp, env) ==
    LET msg  == [ZeroMsg EXCEPT !.cmd = DBUS_C_SUSPEND]
        resp == ZeroMsg
        xr   == XRecord(msg, resp, env)
    IN  IF xr.rc < 0
        THEN HResult(xr.rc,
                     Append(xr.out, Line("stderr", "Failed to send suspend command\n", "", 0)),
                     hp, xr)
        ELSE HResult(HandlerResult(xr.resp.cmd),
                     Append(xr.out, Line("stdout", "Suspend: %s\n",
                                         ParseError(xr.resp.cmd), 0)),
                     hp, xr)

\* a faulty ResumeArgInvalid: only a missing argument is rejected
ResumeArgInvalidNullOnly(arg) == arg = NULL

\* the argument check of handle_cmd_resume: !arg || *arg != '0' || *arg != '1'
ResumeArgInvalid(arg) ==
    arg = NULL \/ FirstChar(arg) # "0" \/ FirstChar(arg) # "1"

\* handle_cmd_resume(context, arg)
HandleCmdResume(hp, arg, env) ==
    IF ResumeArgInvalid(arg)
    THEN HResult(0 - E_DBUS_INVAL, <<>>, hp, NoCall)
    ELSE LET a    == Calloc(hp, 1)
             msg  == [cmd |-> DBUS_C_RESUME, num_args |-> 1,
                      args |-> [a.buf EXCEPT !.bytes[1] =
                                   IF FirstChar(arg) = "1" THEN RESUME_FLASH_MODIFIED
                                   ELSE RESUME_NOT_MODIFIED]]
             resp == ZeroMsg
             xr   == XRecord(msg, resp, env)
         IN  IF xr.rc < 0
             THEN HResult(xr.rc,
                          Append(xr.out,
                                 Line("stderr", "Failed to send resume command\n", "", 0)),
                          a.heap, xr)
             ELSE HResult(HandlerResult(xr.resp.cmd),
                          Append(xr.out, Line("stdout", "Resume: %s\n",
                                              ParseError(xr.resp.cmd), 0)),
                          a.heap, xr)

\* handle_cmd_modified(context)
HandleCmdModified(hp, env) ==
    LET msg  == [ZeroMsg EXCEPT !.cmd = DBUS_C_MODIFIED]
        resp == ZeroMsg
        xr   == XRecord(msg, resp, env)
    IN  IF xr.rc < 0
        THEN HResult(xr.rc,
                     Append(xr.out, Line("stderr", "Failed to send flash modified command\n", "", 0)),
                     Free(hp, xr.msg.args), xr)
        ELSE HResult(HandlerResult(xr.resp.cmd),
                     Append(xr.out, Line("stdout", "Flash Modified: %s\n",
                                         ParseError(xr.resp.cmd), 0)),
                     Free(hp, xr.msg.args), xr)

----------------------------------------------------------------------------
(* The process: main and parse_cmdline *)

Idle == [name |-> "none"]

\* the state after construction: a command line, nothing run yet
Init ==
    /\ pc = "start"
    /\ argv \in CmdLines
    /\ optind = 1
    /\ nextchar = 0
    /\ first_nonopt = 1
    /\ last_nonopt = 1
    /\ busRefs = 0
    /\ rc = 0
    /\ heap = EmptyHeap
    /\ nRan = 0
    /\ nSent = 0
    /\ h = Idle
    /\ x = NoCall
    /\ out = <<>>

\* init_dbus_dev, and main's check of its result; on success main enters
\* parse_cmdline, whose rc starts at -1
MainInitDbus ==
    /\ pc = "start"
    /\ \E r \in {0} \cup {0 - e : e \in Errnos} :
          IF r < 0
          THEN /\ out' = <<ErrLine("Failed to connect to the system bus: %s\n", r),
                           Line("stderr", "Failed to init dbus\n", "", 0)>>
               /\ rc' = r
               /\ pc' = "exited"
               /\ UNCHANGED busRefs
          ELSE /\ out' = <<>>
               /\ rc' = 0 - 1
               /\ pc' = "parse"
               /\ busRefs' = 1
    /\ UNCHANGED <<argv, optind, nextchar, first_nonopt, last_nonopt, heap, nRan, nSent, h, x>>

\* what getopt_long returns next
G == GetOpt(GetState(argv, optind, nextchar, first_nonopt, last_nonopt))

\* getopt's data after the call that returned g
GetoptKeeps(g) ==
    /\ argv' = g.argv
    /\ optind' = g.optind
    /\ nextchar' = g.nextchar
    /\ first_nonopt' = g.first_nonopt
    /\ last_nonopt' = g.last_nonopt

\* one iteration of the loop of parse_cmdline that runs a handler; g is what
\* getopt_long returned
RunHandler(name, g, R) ==
    /\ rc' = R.rc
    /\ heap' = R.heap
    /\ out' = R.out
    /\ x' = R.x
    /\ h' = [name   |-> name,
             arg    |-> g.optarg,
             rc     |-> R.rc,
             out    |-> R.out,
             nsent  |-> IF R.x.called THEN Len(R.x.sent) ELSE 0,
             allocd |-> heap.next..(R.heap.next - 1),
             freed  |-> SubSeq(R.heap.freed, Len(heap.freed) + 1, Len(R.heap.freed))]
    /\ nRan' = nRan + 1
    /\ nSent' = nSent + (IF R.x.called THEN Len(R.x.sent) ELSE 0)
    /\ GetoptKeeps(g)
    /\ UNCHANGED <<pc, busRefs>>

\* case 'p'
CmdPing ==
    /\ pc = "parse"
    /\ LET g == G
       IN  /\ g.opt = "p"
           /\ \E env \in Envs : RunHandler("ping", g, HandleCmdPing(heap, env))

\* case 's'
CmdStatus ==
    /\ pc = "parse"
    /\ LET g == G
       IN  /\ g.opt = "s"
           /\ \E env \in Envs : RunHandler("status", g, HandleCmdStatus(heap, env))

\* case 'r' and case 'f'
CmdReset ==
    /\ pc = "parse"
    /\ LET g == G
       IN  /\ g.opt \in {"r", "f"}
           /\ \E env \in Envs : RunHandler("reset", g, HandleCmdReset(heap, env))

\* case 'u'
CmdSuspend ==
    /\ pc = "parse"
    /\ LET g == G
       IN  /\ g.opt = "u"
           /\ \E env \in Envs : RunHandler("suspend", g, HandleCmdSuspend(heap, env))

\* the environment is consulted only when the argument check lets the
\* handler reach send_dbus_msg
ResumeEnvs(arg) ==
    IF ResumeArgInvalid(arg) THEN {Env("none", 0, DBUS_SUCCESS, <<>>)} ELSE Envs

\* case 'e'
CmdResume ==
    /\ pc = "parse"
    /\ LET g == G
       IN  /\ g.opt = "e"
           /\ \E env \in ResumeEnvs(g.optarg) :
                 RunHandler("resume", g, HandleCmdResume(heap, g.optarg, env))

\* case 'm'
CmdModified ==
    /\ pc = "parse"
    /\ LET g == G
       IN  /\ g.opt = "m"
           /\ \E env \in Envs : RunHandler("modified", g, HandleCmdModified(heap, env))

\* case 'v'
CmdVersion ==
    /\ pc = "parse"
    /\ LET g == G
       IN  /\ g.opt = "v"
           /\ GetoptKeeps(g)
    /\ out' = <<Line("stdout", "%s V%d.%.2d\n", "MBOX Control", 1)>>
    /\ rc' = 0
    /\ UNCHANGED <<pc, busRefs, heap, nRan, nSent, h, x>>

\* case 'h' and default: usage() prints and calls exit(0)
CmdUsage ==
    /\ pc = "parse"
    /\ LET g == G
       IN  /\ g.opt \in {"h", BadOpt}
           /\ GetoptKeeps(g)
           /\ out' = g.err \o
                        <<Line("stdout", "Usage: %s <command> [args]\n", "argv[0]", 0)>>
    /\ rc' = 0
    /\ pc' = "exited"
    /\ UNCHANGED <<busRefs, heap, nRan, nSent, h, x>>

\* getopt_long returns -1: parse_cmdline returns rc and main returns it
ParseDone ==
    /\ pc = "parse"
    /\ LET g == G
       IN  /\ g.opt = EOF
           /\ GetoptKeeps(g)
    /\ pc' = "exited"
    /\ out' = <<>>
    /\ UNCHANGED <<busRefs, rc, heap, nRan, nSent, h, x>>

Next ==
    \/ MainInitDbus
    \/ CmdPing
    \/ CmdStatus
    \/ CmdReset
    \/ CmdSuspend
    \/ CmdResume
    \/ CmdModified
    \/ CmdVersion
    \/ CmdUsage
    \/ ParseDone

Spec == Init /\ [][Next]_vars

----------------------------------------------------------------------------
(* send_dbus_msg on its own: the inputs are drawn from bounded sets *)

\* a response template expecting n bytes in a buffer of cap bytes
RespTemplate(c, n, cap, fill) ==
    [cmd |-> c, num_args |-> n,
     args |-> IF cap = 0 THEN NullBuf
              ELSE [addr |-> 1, bytes |-> [i \in 1..cap |-> fill]]]

ExMsgs == {[ZeroMsg EXCEPT !.cmd = DBUS_C_PING],
           [cmd |-> DBUS_C_RESUME, num_args |-> 1,
            args |-> [addr |-> 2, bytes |-> <<RESUME_FLASH_MODIFIED>>]]}

ExResps == {RespTemplate(c, n, cap, fill) :
               c \in {0, MaxStatus}, n \in 0..MaxExpected,
               cap \in 0..MaxCapacity, fill \in {0, MaxByte}}

ExInit ==
    /\ pc = "exchange"
    /\ argv = <<>>
    /\ optind = 1
    /\ nextchar = 0
    /\ first_nonopt = 1
    /\ last_nonopt = 1
    /\ busRefs = 1
    /\ rc = 0
    /\ heap = EmptyHeap
    /\ nRan = 0
    /\ nSent = 0
    /\ h = Idle
    /\ out = <<>>
    /\ \E msg \in ExMsgs, resp \in ExResps, env \in EnvsOver(0..MaxByte, MaxBufLen) :
          /\ resp.num_args <= Len(resp.args.bytes)
          /\ x = [called |-> FALSE, msg |-> msg, resp0 |-> resp, env |-> env]

ExCall ==
    /\ pc = "exchange"
    /\ ~x.called
    /\ x' = XRecord(x.msg, x.resp0, x.env)
    /\ out' = x'.out
    /\ nSent' = nSent + Len(x'.sent)
    /\ UNCHANGED <<pc, argv, optind, nextchar, first_nonopt, last_nonopt, busRefs, rc,
                   heap, nRan, h>>

ExchangeSpec == ExInit /\ [][ExCall]_vars

\* the process and the exchange on its own, side by side
FullSpec == (Init \/ ExInit) /\ [][Next \/ ExCall]_vars

----------------------------------------------------------------------------
(* Vocabulary of the properties *)

Handlers == {"ping", "status", "reset", "suspend", "resume", "modified"}

Ran == h.name \in Handlers

\* the most recent handler run called send_dbus_msg and the daemon's reply
\* (status byte and argument array) was read
Delivered == x.called /\ x.env.fail = "none"

\* the reply's argument array is shorter than the caller expects
ShortReply == Delivered /\ Len(x.env.buf) < x.resp0.num_args

Count(seq, e) == Cardinality({i \in 1..Len(seq) : seq[i] = e})

\* the lines by which a handler reports the daemon's outcome
OutcomeFmts == {"Ping: %s\n", "Daemon Status: %s\n", "Status command failed\n",
                "Reset: %s\n", "Suspend: %s\n", "Resume: %s\n",
                "Flash Modified: %s\n"}

\* the lines of a handler that name its operation
NamingFmts(name) ==
    CASE name = "ping"     -> {"Failed to send ping command\n", "Ping: %s\n"}
      [] name = "status"   -> {"Failed to send status command\n",
                               "Status command failed\n", "Daemon Status: %s\n"}
      [] name = "reset"    -> {"Failed to send reset command\n", "Reset: %s\n"}
      [] name = "suspend"  -> {"Failed to send suspend command\n", "Suspend: %s\n"}
      [] name = "resume"   -> {"Failed to send resume command\n", "Resume: %s\n"}
      [] name = "modified" -> {"Failed to send flash modified command\n",
                               "Flash Modified: %s\n"}

Str0 == <<"0">>
Str1 == <<"1">>

----------------------------------------------------------------------------
(* C1 *)

\* C1: a Resume run with argument "0" or "1" issues exactly one request, with
\* command Resume and the one argument byte NotModified for "0" and
\* FlashModified for "1"; when the daemon replies with status s the result is
\* -s and the taxonomy phrase of s is printed.
C1_ResumeIssuesOneRequest ==
    (h.name = "resume" /\ h.arg \in {Str0, Str1}) =>
        /\ x.called
        /\ h.nsent = 1
        /\ x.sent = <<[cmd |-> DBUS_C_RESUME,
                       args |-> <<IF h.arg = Str1 THEN RESUME_FLASH_MODIFIED
                                  ELSE RESUME_NOT_MODIFIED>>]>>
        /\ Delivered =>
              /\ h.rc = 0 - x.env.status
              /\ \E i \in 1..Len(h.out) : h.out[i].str = ParseError(x.env.status)

----------------------------------------------------------------------------
(* C2 *)

\* C2: whenever a reply is read whose argument array is shorter than the
\* expected length n >= 1, send_dbus_msg returns -E_DBUS_INTERNAL, never 0;
\* the handler that made the call returns that result and prints no outcome
\* line for the reply's status byte.
C2_ShortReplyIsInternalError ==
    (ShortReply /\ x.resp0.num_args >= 1) =>
        /\ x.rc = 0 - E_DBUS_INTERNAL
        /\ x.rc # 0
        /\ Ran => /\ h.rc = x.rc
                  /\ \A i \in 1..Len(h.out) : h.out[i].fmt \notin OutcomeFmts

\* the Status handler received a reply with status RejectedByDaemon and no
\* argument bytes
C2_Witness ==
    /\ h.name = "status"
    /\ ShortReply
    /\ x.env.status = E_DBUS_REJECTED
    /\ x.resp0.num_args = 1

----------------------------------------------------------------------------
(* C3 *)

\* C3: in one process invocation at most one command handler runs and at
\* most one request is sent to the daemon.
C3_AtMostOneCommand == nRan <= 1 /\ nSent <= 1

----------------------------------------------------------------------------
(* C4 *)

\* C4: a Resume run whose argument is not "0" and not "1" (a missing argument
\* included) returns -E_DBUS_INVAL, calls send_dbus_msg not at all and sends
\* no request.
C4_ResumeRejectsOtherArguments ==
    (h.name = "resume" /\ h.arg \notin {Str0, Str1}) =>
        /\ h.rc = 0 - E_DBUS_INVAL
        /\ ~x.called
        /\ h.nsent = 0

\* a Resume run with argument "2"
C4_Witness ==
    /\ h.name = "resume"
    /\ h.arg = <<"2">>
    /\ h.rc = 0 - E_DBUS_INVAL
    /\ h.nsent = 0

----------------------------------------------------------------------------
(* C5 *)

\* C5 as claimed: for ping, status, reset, suspend and flash-modified, a
\* delivered reply with status byte s makes the handler's result -s, whatever
\* the reply's argument bytes and however many.
C5_ResultIsNegatedStatus ==
    (h.name \in Handlers \ {"resume"} /\ Delivered) => h.rc = 0 - x.env.status

\* C5 as amended: for ping, status, reset, suspend and flash-modified, a
\* delivered reply with status byte s and at least as many argument bytes as
\* the handler expects (1 for status, 0 for the others) makes the handler's
\* result -s, 0 exactly when s is Success; a delivered reply with fewer
\* argument bytes makes the result -E_DBUS_INTERNAL whatever s is.
C5_ResultIsNegatedStatusUnlessShort ==
    (h.name \in Handlers \ {"resume"} /\ Delivered) =>
        /\ x.resp0.num_args = (IF h.name = "status" THEN 1 ELSE 0)
        /\ ~ShortReply => /\ h.rc = 0 - x.env.status
                          /\ (h.rc = 0 <=> x.env.status = DBUS_SUCCESS)
        /\ ShortReply => h.rc = 0 - E_DBUS_INTERNAL

\* a handler received a non-Success status together with over-long arguments
C5_Witness ==
    /\ h.name = "ping"
    /\ Delivered
    /\ x.env.status = E_DBUS_HARDWARE
    /\ Len(x.env.buf) > 0
    /\ h.rc = 0 - E_DBUS_HARDWARE

----------------------------------------------------------------------------
(* C6 *)

\* C6 as claimed: when send_dbus_msg fails, the caller's response message is
\* as it was before the call, status byte and argument bytes alike.
C6_FailureLeavesResponse == (x.called /\ x.rc < 0) => x.resp = x.resp0

\* C6 as amended: when send_dbus_msg fails, the argument bytes of the
\* caller's response are as they were before the call; its status byte is as
\* it was when the failure is in building or sending the request or in
\* reading the status byte, and holds the reply's status byte when the
\* failure is in reading the argument array or in the length check.
C6_FailureLeavesArguments ==
    (x.called /\ x.rc < 0) =>
        /\ x.resp.args = x.resp0.args
        /\ x.resp.num_args = x.resp0.num_args
        /\ x.env.fail \in FailPoints \ {"read_args"} => x.resp.cmd = x.resp0.cmd
        /\ x.env.fail \in {"read_args", "none"} => x.resp.cmd = x.env.status

\* the length check failed after a non-zero status byte had been stored
C6_Witness ==
    /\ x.called
    /\ x.rc < 0
    /\ x.env.fail = "none"
    /\ x.env.status = E_DBUS_REJECTED
    /\ x.resp.cmd # x.resp0.cmd

----------------------------------------------------------------------------
(* C7 *)

\* C7: when the process exits it holds no reference on the daemon
\* connection: a connection that was acquired has been released.
C7_ConnectionReleasedAtExit == pc = "exited" => busRefs = 0

----------------------------------------------------------------------------
(* C8 *)

\* C8: when the reply's argument array has at least the expected length n,
\* send_dbus_msg returns 0, the first n bytes of the caller's response are
\* the first n bytes of the reply in order, and the bytes of the caller's
\* buffer beyond n are as they were.
C8_CopiesExactlyExpected ==
    (Delivered /\ Len(x.env.buf) >= x.resp0.num_args) =>
        /\ x.rc = 0
        /\ Len(x.resp.args.bytes) = Len(x.resp0.args.bytes)
        /\ \A i \in 1..Len(x.resp.args.bytes) :
              x.resp.args.bytes[i] =
                 IF i <= x.resp0.num_args THEN x.env.buf[i]
                 ELSE x.resp0.args.bytes[i]

\* a reply longer than expected, into a buffer with room beyond the
\* expected length, with a reply byte that differs from the buffer's
C8_Witness ==
    /\ Delivered
    /\ x.resp0.num_args = 1
    /\ Len(x.env.buf) > 1
    /\ Len(x.resp0.args.bytes) > 1
    /\ x.env.buf[2] # x.resp0.args.bytes[2]
    /\ x.env.buf[1] # x.resp0.args.bytes[1]
    /\ x.rc = 0

----------------------------------------------------------------------------
(* C9 *)

\* C9: a handler run that ends with a non-zero result has printed a line
\* that names the attempted operation, and when the result is a non-Success
\* daemon status a printed line carries the taxonomy phrase of that status.
C9_FailureIsDiagnosed ==
    (Ran /\ h.rc # 0) =>
        /\ \E i \in 1..Len(h.out) : h.out[i].fmt \in NamingFmts(h.name)
        /\ (x.called /\ x.rc = 0) =>
              \E i \in 1..Len(h.out) : h.out[i].str = ParseError(x.resp.cmd)

----------------------------------------------------------------------------
(* C10 *)

\* C10: at the return of a handler every buffer the handler allocated has
\* been freed exactly once, and none of them is still held.
C10_AllocatedBuffersFreed ==
    Ran => /\ \A a \in h.allocd : Count(h.freed, a) = 1
           /\ h.allocd \cap heap.live = {}
           /\ heap.live = {}

\* the Status handler allocated its response buffer and returned on the
\* path of a failed exchange
C10_Witness ==
    /\ h.name = "status"
    /\ h.allocd # {}
    /\ x.called
    /\ x.rc < 0
=============================================================================
